---- MODULE Spec2Model ----
(***************************************************************************)
(* A model of the Base64 codec of @se-oss/base64 (shahradelahi/ts-base64): *)
(* the one-shot encode/decode functions on their three platform paths, the *)
(* validators, and the two streaming accumulators.                         *)
(*                                                                         *)
(* JavaScript strings are sequences of UTF-16 code units (naturals), byte  *)
(* arrays are sequences of 0..255.  A JavaScript value is a record         *)
(* [t |-> its type, v |-> its content]; a raised error is the record whose *)
(* t is the error's kind.                                                  *)
(***************************************************************************)
EXTENDS Integers, Sequences, FiniteSets, TLC

VARIABLES
    env,        \* which globals exist: "node" (Buffer), "browser" (btoa/atob), "other"
    rev,        \* which of the two revisions of encode.ts is loaded (1: lines 1-180, 2: lines 182-383)
    srev,       \* which stream module is loaded (1: src/stream.ts, 2: unnamed/part_001)
    input,      \* the caller's input value
    calls,      \* the one-shot calls made so far: <<[fn, arg, options, ret], ...>>
    source,     \* streaming: the part of the input not yet delivered as a chunk
    received,   \* streaming: the chunks transform() has processed
    buffer,     \* streaming: this.buffer
    emitted,    \* streaming: the chunks handed to controller.enqueue
    state       \* streaming: "open", "closed" (flush has run), "errored" (a callback raised)

vars == <<env, rev, srev, input, calls, source, received, buffer, emitted, state>>

(***************************************************************************)
(* Bounds of the model.                                                    *)
(***************************************************************************)
MaxBytes == 4        \* longest byte array given to fromUint8Array
MaxChars == 2        \* longest text given to encode
MaxCandidate == 4    \* longest free part of a candidate string given to the validators
MaxStreamLen == 4    \* longest input delivered to an encode stream
MaxDecoded == 3      \* longest plain text whose Base64 is delivered to a decode stream
MaxEncoded == 4      \* longest string, well formed or not, given to the decoders
MaxInterleaved == 3  \* most chunks written to two stream instances together

(***************************************************************************)
(* JavaScript values.                                                      *)
(***************************************************************************)
Str(s) == [t |-> "string", v |-> s]
U8(b) == [t |-> "Uint8Array", v |-> b]
Bool(b) == [t |-> "boolean", v |-> IF b THEN <<1>> ELSE <<0>>]
Throw(kind) == [t |-> kind, v |-> <<>>]
ErrorKinds == {"TypeError", "InvalidBase64Error", "InvalidDataURLError", "InvalidCharacterError"}
IsThrow(r) == r.t \in ErrorKinds

\* undefined / NaN, the value of an out-of-range index or charCodeAt
NaN == -1
isNaN(x) == x = NaN
\* ToInt32 as the bitwise operators apply it: NaN and undefined become 0
ToInt32(x) == IF x = NaN THEN 0 ELSE x
Shr(x, k) == ToInt32(x) \div (2 ^ k)
Shl(x, k) == ToInt32(x) * (2 ^ k)
\* a variant of And whose mask is one too small: C18 must tell it from the original
And_short_mask(x, m) == ToInt32(x) % m
\* x & m for a mask m = 2^k - 1
And(x, m) == ToInt32(x) % (m + 1)
RECURSIVE BitOr(_, _)
BitOr(a, b) ==
    IF a = 0 THEN b
    ELSE IF b = 0 THEN a
    ELSE (IF a % 2 = 1 \/ b % 2 = 1 THEN 1 ELSE 0) + 2 * BitOr(a \div 2, b \div 2)
Or(a, b) == BitOr(ToInt32(a), ToInt32(b))

\* s.charAt(i), value[i], s.charCodeAt(i) with 0-based i
charAt(s, i) == IF i >= 0 /\ i < Len(s) THEN <<s[i + 1]>> ELSE <<>>
At(s, i) == IF i >= 0 /\ i < Len(s) THEN s[i + 1] ELSE NaN
slice(s, from, to) == SubSeq(s, from + 1, IF to > Len(s) THEN Len(s) ELSE to)

RECURSIVE Concat(_)
Concat(ss) == IF ss = <<>> THEN <<>> ELSE Head(ss) \o Concat(Tail(ss))

RECURSIVE Replace(_, _, _)
\* s.replace(/a/g, b) for single characters a, b
Replace(s, a, b) ==
    IF s = <<>> THEN <<>>
    ELSE <<IF Head(s) = a THEN b ELSE Head(s)>> \o Replace(Tail(s), a, b)

RECURSIVE Remove(_, _)
\* s.replace(/a/g, '')
Remove(s, a) ==
    IF s = <<>> THEN <<>>
    ELSE (IF Head(s) = a THEN <<>> ELSE <<Head(s)>>) \o Remove(Tail(s), a)

RECURSIVE RemoveTrailing(_, _)
\* s.replace(/a+$/, '')
RemoveTrailing(s, a) ==
    IF s # <<>> /\ s[Len(s)] = a THEN RemoveTrailing(SubSeq(s, 1, Len(s) - 1), a) ELSE s

(***************************************************************************)
(* constants.ts: the alphabet and its lookup table.                        *)
(***************************************************************************)
PLUS == 43
SLASH == 47
EQ == 61
MINUS == 45
UNDERSCORE == 95

\* 'ABCDEFGHIJKLMNOPQRSTUVWXYZabcdefghijklmnopqrstuvwxyz0123456789+/='
B64_CHAR_SET ==
    [i \in 1..26 |-> 64 + i] \o [i \in 1..26 |-> 96 + i] \o [i \in 1..10 |-> 47 + i]
        \o <<PLUS, SLASH, EQ>>

\* a variant of B64_LOOKUP that counts the indices from 1: C30 must tell it from the
\* original
B64_LOOKUP_from_one ==
    [c \in {B64_CHAR_SET[i] : i \in 1..Len(B64_CHAR_SET)} |->
        (CHOOSE i \in 1..Len(B64_CHAR_SET) : B64_CHAR_SET[i] = c)]
\* for (i = 0; i < B64_CHAR_SET.length; i++) B64_LOOKUP[B64_CHAR_SET[i]] = i
B64_LOOKUP ==
    [c \in {B64_CHAR_SET[i] : i \in 1..Len(B64_CHAR_SET)} |->
        (CHOOSE i \in 1..Len(B64_CHAR_SET) : B64_CHAR_SET[i] = c) - 1]

\* lookup[s.charAt(i)]: undefined for '' and for a character that is no key
lookup(s, i) ==
    IF i >= 0 /\ i < Len(s) /\ s[i + 1] \in DOMAIN B64_LOOKUP THEN B64_LOOKUP[s[i + 1]] ELSE NaN

IsAlnum(c) == (c >= 65 /\ c <= 90) \/ (c >= 97 /\ c <= 122) \/ (c >= 48 /\ c <= 57)
\* a variant of IsB64Class without '/': C9 must tell it from the original
IsB64Class_no_slash(c) == IsAlnum(c) \/ c = PLUS
\* [A-Za-z\d+/]
IsB64Class(c) == IsAlnum(c) \/ c = PLUS \/ c = SLASH
\* [A-Za-z\d-_]
IsB64UrlClass(c) == IsAlnum(c) \/ c = MINUS \/ c = UNDERSCORE

RECURSIVE B64_REGEX_test(_)
\* /^(?:[A-Za-z\d+/]{4})*(?:[A-Za-z\d+/]{2}==|[A-Za-z\d+/]{3}=)?$/
B64_REGEX_test(s) ==
    \/ s = <<>>
    \/ /\ Len(s) >= 4
       /\ \A k \in 1..4 : IsB64Class(s[k])
       /\ B64_REGEX_test(SubSeq(s, 5, Len(s)))
    \/ /\ Len(s) = 4
       /\ IsB64Class(s[1]) /\ IsB64Class(s[2]) /\ s[3] = EQ /\ s[4] = EQ
    \/ /\ Len(s) = 4
       /\ IsB64Class(s[1]) /\ IsB64Class(s[2]) /\ IsB64Class(s[3]) /\ s[4] = EQ

RECURSIVE B64_URL_REGEX_test(_)
\* /^(?:[A-Za-z\d-_]{4})*(?:[A-Za-z\d-_]{2,3})?$/
B64_URL_REGEX_test(s) ==
    \/ s = <<>>
    \/ /\ Len(s) >= 4
       /\ \A k \in 1..4 : IsB64UrlClass(s[k])
       /\ B64_URL_REGEX_test(SubSeq(s, 5, Len(s)))
    \/ /\ Len(s) \in {2, 3}
       /\ \A k \in 1..Len(s) : IsB64UrlClass(s[k])

(***************************************************************************)
(* The platform: UTF-8 conversion (TextEncoder, TextDecoder, Buffer) and   *)
(* the native Base64 primitives (Buffer, btoa, atob), as their standards   *)
(* define them.                                                            *)
(***************************************************************************)
Buffer_defined == env = "node"
btoa_defined == env = "browser"
atob_defined == env = "browser"

IsHighSurrogate(c) == c >= 55296 /\ c <= 56319
IsLowSurrogate(c) == c >= 56320 /\ c <= 57343
REPLACEMENT == <<239, 191, 189>>

\* the UTF-8 bytes of one code point
CodePointBytes(cp) ==
    IF cp < 128 THEN <<cp>>
    ELSE IF cp < 2048 THEN <<192 + (cp \div 64), 128 + (cp % 64)>>
    ELSE IF cp < 65536 THEN <<224 + (cp \div 4096), 128 + ((cp \div 64) % 64), 128 + (cp % 64)>>
    ELSE <<240 + (cp \div 262144), 128 + ((cp \div 4096) % 64), 128 + ((cp \div 64) % 64),
           128 + (cp % 64)>>

RECURSIVE utf8_encode(_)
\* new TextEncoder().encode(s), Buffer.from(s, 'utf-8'): a lone surrogate becomes U+FFFD
utf8_encode(s) ==
    IF s = <<>> THEN <<>>
    ELSE IF IsHighSurrogate(s[1]) /\ Len(s) >= 2 /\ IsLowSurrogate(s[2])
        THEN CodePointBytes(65536 + (s[1] - 55296) * 1024 + (s[2] - 56320))
                \o utf8_encode(SubSeq(s, 3, Len(s)))
    ELSE IF IsHighSurrogate(s[1]) \/ IsLowSurrogate(s[1])
        THEN REPLACEMENT \o utf8_encode(Tail(s))
    ELSE CodePointBytes(s[1]) \o utf8_encode(Tail(s))

IsCont(b) == b >= 128 /\ b <= 191
\* the range of the first continuation byte after lead byte b
SecondLo(b) == IF b = 224 THEN 160 ELSE IF b = 240 THEN 144 ELSE 128
SecondHi(b) == IF b = 237 THEN 159 ELSE IF b = 244 THEN 143 ELSE 191
\* the number of continuation bytes lead byte b asks for (0: b is no lead byte)
Needed(b) ==
    IF b >= 194 /\ b <= 223 THEN 1
    ELSE IF b >= 224 /\ b <= 239 THEN 2
    ELSE IF b >= 240 /\ b <= 244 THEN 3
    ELSE 0

\* the UTF-16 code units of one code point
CodeUnits(cp) ==
    IF cp < 65536 THEN <<cp>>
    ELSE <<55296 + ((cp - 65536) \div 1024), 56320 + ((cp - 65536) % 1024)>>

RECURSIVE utf8_decode(_)
\* UTF-8 decoding with replacement: every maximal ill-formed subpart becomes U+FFFD
utf8_decode(b) ==
    IF b = <<>> THEN <<>>
    ELSE IF b[1] < 128 THEN <<b[1]>> \o utf8_decode(Tail(b))
    ELSE
        LET n == Needed(b[1])
            ok2 == Len(b) >= 2 /\ b[2] >= SecondLo(b[1]) /\ b[2] <= SecondHi(b[1])
            ok3 == ok2 /\ Len(b) >= 3 /\ IsCont(b[3])
            ok4 == ok3 /\ Len(b) >= 4 /\ IsCont(b[4])
        IN  IF n = 0 \/ ~ok2 THEN <<65533>> \o utf8_decode(Tail(b))
            ELSE IF n = 1
                THEN <<(b[1] - 192) * 64 + (b[2] - 128)>> \o utf8_decode(SubSeq(b, 3, Len(b)))
            ELSE IF ~ok3 THEN <<65533>> \o utf8_decode(SubSeq(b, 3, Len(b)))
            ELSE IF n = 2
                THEN <<(b[1] - 224) * 4096 + (b[2] - 128) * 64 + (b[3] - 128)>>
                        \o utf8_decode(SubSeq(b, 4, Len(b)))
            ELSE IF ~ok4 THEN <<65533>> \o utf8_decode(SubSeq(b, 4, Len(b)))
            ELSE CodeUnits((b[1] - 240) * 262144 + (b[2] - 128) * 4096 + (b[3] - 128) * 64
                            + (b[4] - 128))
                    \o utf8_decode(SubSeq(b, 5, Len(b)))

\* buffer.toString('utf-8'): the byte order mark is kept
Buffer_toString_utf8(b) == utf8_decode(b)
\* new TextDecoder().decode(b): a leading byte order mark is dropped
TextDecoder_decode(b) ==
    IF Len(b) >= 3 /\ SubSeq(b, 1, 3) = <<239, 187, 191>>
    THEN utf8_decode(SubSeq(b, 4, Len(b)))
    ELSE utf8_decode(b)

\* String.fromCharCode.apply(null, Array.from(bytes)): one code unit per byte
fromCharCode(b) == b

RECURSIVE NativeBase64(_)
\* RFC 4648 Base64 of a byte sequence, padded: what Buffer.toString('base64') and
\* btoa (on a string of code units 0..255) return
NativeBase64(b) ==
    IF b = <<>> THEN <<>>
    ELSE
        LET k == IF Len(b) >= 3 THEN 3 ELSE Len(b)
            n == b[1] * 65536 + (IF k >= 2 THEN b[2] * 256 ELSE 0) + (IF k >= 3 THEN b[3] ELSE 0)
            sym(j) == B64_CHAR_SET[((n \div (64 ^ (4 - j))) % 64) + 1]
        IN  <<sym(1), sym(2), IF k >= 2 THEN sym(3) ELSE EQ, IF k >= 3 THEN sym(4) ELSE EQ>>
                \o NativeBase64(SubSeq(b, k + 1, Len(b)))

Buffer_toString_base64(b) == NativeBase64(b)
\* btoa(binaryString): InvalidCharacterError for a code unit above 255
btoa(s) ==
    IF \E i \in 1..Len(s) : s[i] > 255 THEN Throw("InvalidCharacterError")
    ELSE Str(NativeBase64(s))

\* the 6-bit value of a character for the native decoders, NaN when it has none
Sextet(c, urlToo) ==
    IF c >= 65 /\ c <= 90 THEN c - 65
    ELSE IF c >= 97 /\ c <= 122 THEN c - 71
    ELSE IF c >= 48 /\ c <= 57 THEN c + 4
    ELSE IF c = PLUS \/ (urlToo /\ c = MINUS) THEN 62
    ELSE IF c = SLASH \/ (urlToo /\ c = UNDERSCORE) THEN 63
    ELSE NaN

RECURSIVE SextetsToBytes(_)
\* 4 sextets give 3 bytes; a last group of 2 or 3 gives 1 or 2 bytes; of 1, none
SextetsToBytes(x) ==
    IF Len(x) < 2 THEN <<>>
    ELSE
        LET b1 == x[1] * 4 + (x[2] \div 16)
            b2 == (x[2] % 16) * 16 + (x[3] \div 4)
            b3 == (x[3] % 4) * 64 + x[4]
        IN  IF Len(x) = 2 THEN <<b1>>
            ELSE IF Len(x) = 3 THEN <<b1, b2>>
            ELSE <<b1, b2, b3>> \o SextetsToBytes(SubSeq(x, 5, Len(x)))

RECURSIVE NodeSextets(_)
\* Buffer.from(s, 'base64') reads both alphabets, skips every other character and
\* stops at the first '='
NodeSextets(s) ==
    IF s = <<>> \/ s[1] = EQ THEN <<>>
    ELSE (IF isNaN(Sextet(s[1], TRUE)) THEN <<>> ELSE <<Sextet(s[1], TRUE)>>)
            \o NodeSextets(Tail(s))

Buffer_from_base64(s) == SextetsToBytes(NodeSextets(s))

IsAsciiWhitespace(c) == c \in {9, 10, 12, 13, 32}
RECURSIVE StripWhitespace(_)
StripWhitespace(s) ==
    IF s = <<>> THEN <<>>
    ELSE (IF IsAsciiWhitespace(s[1]) THEN <<>> ELSE <<s[1]>>) \o StripWhitespace(Tail(s))

\* atob(s), the forgiving-base64 decode: whitespace is removed, one or two '=' are
\* removed from a length that is a multiple of 4, and then a length of 1 mod 4 or a
\* character outside the standard alphabet raises InvalidCharacterError.  The result
\* is a string with one code unit per byte.
atob(s) ==
    LET w == StripWhitespace(s)
        d == IF Len(w) % 4 = 0 /\ Len(w) > 0 /\ w[Len(w)] = EQ
             THEN IF w[Len(w) - 1] = EQ THEN SubSeq(w, 1, Len(w) - 2)
                  ELSE SubSeq(w, 1, Len(w) - 1)
             ELSE w
    IN  IF Len(d) % 4 = 1 \/ \E i \in 1..Len(d) : isNaN(Sextet(d[i], FALSE))
        THEN Throw("InvalidCharacterError")
        ELSE Str(SextetsToBytes([i \in 1..Len(d) |-> Sextet(d[i], FALSE)]))

(***************************************************************************)
(* encode.ts.  Options are records [urlSafe, omitPadding]; an option the   *)
(* caller leaves out is FALSE.                                             *)
(***************************************************************************)
NoOptions == [urlSafe |-> FALSE, omitPadding |-> FALSE]
EncodeOptions == [urlSafe : BOOLEAN, omitPadding : BOOLEAN]
DecodeOptions == [urlSafe : BOOLEAN]

\* result.replace(/\+/g, '-').replace(/\//g, '_')
ToUrlAlphabet(s) == Replace(Replace(s, PLUS, MINUS), SLASH, UNDERSCORE)
\* a variant of FromUrlAlphabet that leaves '_' alone: C1 must tell it from the original
FromUrlAlphabet_dash_only(s) == Replace(s, MINUS, PLUS)
\* base64.replace(/-/g, '+').replace(/_/g, '/')
FromUrlAlphabet(s) == Replace(Replace(s, MINUS, PLUS), UNDERSCORE, SLASH)

\* if (options.urlSafe) result = result.replace(/\+/g, '-').replace(/\//g, '_')
urlSafeStep(result, options) == IF options.urlSafe THEN ToUrlAlphabet(result) ELSE result
\* encode: if (options.omitPadding) result = result.replace(/=+$/, '')
omitTrailingPadding(result, options) ==
    IF options.omitPadding THEN RemoveTrailing(result, EQ) ELSE result
\* a variant of omitAllPadding that ignores the option: C5 must tell it from the original
omitAllPadding_always(result, options) == Remove(result, EQ)
\* fromUint8Array: if (options.omitPadding) result = result.replace(/=/g, '')
omitAllPadding(result, options) ==
    IF options.omitPadding THEN Remove(result, EQ) ELSE result

RECURSIVE fromUint8Array_1_fallback(_, _)
\* encode.ts 125-144: while (i < len) with i++ only while bytes remain
fromUint8Array_1_fallback(bytes, i) ==
    LET len == Len(bytes) IN
    IF ~(i < len) THEN <<>>
    ELSE
        LET remainingBytes == len - i
            chr1 == At(bytes, i)
            i1 == i + 1
            chr2 == IF i1 < len THEN At(bytes, i1) ELSE 0
            i2 == IF i1 < len THEN i1 + 1 ELSE i1
            chr3 == IF i2 < len THEN At(bytes, i2) ELSE 0
            i3 == IF i2 < len THEN i2 + 1 ELSE i2
            enc1 == Shr(chr1, 2)
            enc2 == Or(Shl(And(chr1, 3), 4), Shr(chr2, 4))
            enc3 == IF remainingBytes > 1 THEN Or(Shl(And(chr2, 15), 2), Shr(chr3, 6)) ELSE 64
            enc4 == IF remainingBytes > 2 THEN And(chr3, 63) ELSE 64
        IN  charAt(B64_CHAR_SET, enc1) \o charAt(B64_CHAR_SET, enc2)
                \o charAt(B64_CHAR_SET, enc3) \o charAt(B64_CHAR_SET, enc4)
                \o fromUint8Array_1_fallback(bytes, i3)

RECURSIVE TableEncode(_, _)
\* encode.ts 232-254 and 327-347: three elements per round, read past the end as
\* undefined / NaN; elements are bytes (fromUint8Array) or code units (encode)
TableEncode(x, i) ==
    IF ~(i < Len(x)) THEN <<>>
    ELSE
        LET byte1 == At(x, i)
            byte2 == At(x, i + 1)
            byte3 == At(x, i + 2)
            b1 == Shr(byte1, 2)
            b2 == Or(Shl(And(byte1, 3), 4), Shr(byte2, 4))
            b3 == IF isNaN(byte2) THEN 64 ELSE Or(Shl(And(byte2, 15), 2), Shr(byte3, 6))
            b4 == IF isNaN(byte2) \/ isNaN(byte3) THEN 64 ELSE And(byte3, 63)
        IN  charAt(B64_CHAR_SET, b1) \o charAt(B64_CHAR_SET, b2)
                \o charAt(B64_CHAR_SET, b3) \o charAt(B64_CHAR_SET, b4)
                \o TableEncode(x, i + 3)

\* typeof value: arrays, Buffers, plain objects and null are all 'object'
typeof(value) ==
    IF value.t \in {"Uint8Array", "Buffer", "object", "null"} THEN "object" ELSE value.t
\* value.constructor.name; a Node Buffer is a Uint8Array whose constructor is Buffer
constructor_name(value) ==
    CASE value.t = "Uint8Array" -> "Uint8Array"
      [] value.t = "Buffer" -> "Buffer"
      [] value.t = "object" -> "Object"
      [] OTHER -> "none"
\* typeof value !== 'object' || value.constructor.name !== 'Uint8Array'; reading
\* null.constructor raises a TypeError as well, so null ends like a failed test
IsUint8Array(value) == typeof(value) = "object" /\ constructor_name(value) = "Uint8Array"

\* encode.ts 98-156
fromUint8Array_1(value, options) ==
    IF ~IsUint8Array(value) THEN Throw("TypeError")
    ELSE
        LET result == IF Buffer_defined THEN Buffer_toString_base64(value.v)
                      ELSE IF btoa_defined THEN btoa(fromCharCode(value.v)).v
                      ELSE fromUint8Array_1_fallback(value.v, 0)
        IN  Str(omitAllPadding(urlSafeStep(result, options), options))

\* encode.ts 303-359
fromUint8Array_2(value, options) ==
    IF ~IsUint8Array(value) THEN Throw("TypeError")
    ELSE
        LET result == IF Buffer_defined THEN Buffer_toString_base64(value.v)
                      ELSE IF btoa_defined THEN btoa(fromCharCode(value.v)).v
                      ELSE TableEncode(value.v, 0)
        IN  Str(omitAllPadding(urlSafeStep(result, options), options))

fromUint8Array(value, options) ==
    IF rev = 1 THEN fromUint8Array_1(value, options) ELSE fromUint8Array_2(value, options)

\* encode.ts 19-61
encode_1(value, options) ==
    IF value.t # "string" THEN Throw("TypeError")
    ELSE
        LET result == IF Buffer_defined THEN Buffer_toString_base64(utf8_encode(value.v))
                      ELSE IF btoa_defined THEN btoa(fromCharCode(utf8_encode(value.v))).v
                      ELSE fromUint8Array_1(U8(utf8_encode(value.v)),
                                [omitPadding |-> options.omitPadding,
                                 urlSafe |-> options.urlSafe]).v
        IN  Str(omitTrailingPadding(urlSafeStep(result, options), options))

\* encode.ts 202-266
encode_2(value, options) ==
    IF value.t # "string" THEN Throw("TypeError")
    ELSE
        LET result == IF Buffer_defined THEN Buffer_toString_base64(utf8_encode(value.v))
                      ELSE IF btoa_defined THEN btoa(fromCharCode(utf8_encode(value.v))).v
                      ELSE TableEncode(value.v, 0)
        IN  Str(omitTrailingPadding(urlSafeStep(result, options), options))

encode(value, options) ==
    IF rev = 1 THEN encode_1(value, options) ELSE encode_2(value, options)

\* encode.ts 78-80, 283-285: encode(value, { ...options, urlSafe: true })
encodeURL(value, options) ==
    encode(value, [options EXCEPT !.urlSafe = TRUE])

\* encode.ts 179: `data:${mimeType};base64,${encoded}`
DATA_PREFIX == <<100, 97, 116, 97, 58>>
BASE64_SEPARATOR == <<59, 98, 97, 115, 101, 54, 52, 44>>
toDataURL_template(mimeType, encoded) ==
    IF IsThrow(encoded) THEN encoded
    ELSE Str(DATA_PREFIX \o mimeType \o BASE64_SEPARATOR \o encoded.v)

\* encode.ts 173-180, 376-383
toDataURL(value, mimeType, options) == toDataURL_template(mimeType, encode(value, options))

(***************************************************************************)
(* decode.ts                                                               *)
(***************************************************************************)
\* decode.ts 25-36
isValid(value, options) ==
    IF value.t # "string" THEN Bool(FALSE)
    ELSE IF options.urlSafe THEN Bool(B64_URL_REGEX_test(value.v))
    ELSE Bool(B64_REGEX_test(value.v))

\* a variant of isValidURL with the standard pattern: C10 must tell it from the original
isValidURL_standard(value) ==
    IF value.t # "string" THEN Bool(FALSE)
    ELSE Bool(B64_REGEX_test(value.v))
\* decode.ts 51-56
isValidURL(value) ==
    IF value.t # "string" THEN Bool(FALSE)
    ELSE Bool(B64_URL_REGEX_test(value.v))

\* a variant of PadEnd that adds nothing: C6 must tell it from the original
PadEnd_none(s) == s
RECURSIVE PadEnd(_)
\* while (base64.length % 4) base64 += '='
PadEnd(s) == IF Len(s) % 4 # 0 THEN PadEnd(Append(s, EQ)) ELSE s

RECURSIVE Sanitize(_)
\* base64.replace(/[^A-Za-z0-9+/=]/g, '')
Sanitize(s) ==
    IF s = <<>> THEN <<>>
    ELSE (IF IsB64Class(s[1]) \/ s[1] = EQ THEN <<s[1]>> ELSE <<>>) \o Sanitize(Tail(s))

RECURSIVE TableDecode(_, _)
\* decode.ts 111-129 and 201-219: the values chr1, chr2, chr3 the loop emits
TableDecode(sanitizedValue, i) ==
    IF ~(i < Len(sanitizedValue)) THEN <<>>
    ELSE
        LET enc1 == lookup(sanitizedValue, i)
            enc2 == lookup(sanitizedValue, i + 1)
            enc3 == lookup(sanitizedValue, i + 2)
            enc4 == lookup(sanitizedValue, i + 3)
            chr1 == Or(Shl(enc1, 2), Shr(enc2, 4))
            chr2 == Or(Shl(And(enc2, 15), 4), Shr(enc3, 2))
            chr3 == Or(Shl(And(enc3, 3), 6), enc4)
        IN  <<chr1>> \o (IF enc3 # 64 THEN <<chr2>> ELSE <<>>)
                \o (IF enc4 # 64 THEN <<chr3>> ELSE <<>>)
                \o TableDecode(sanitizedValue, i + 4)

\* decode.ts 75-132
\* decode.ts 81-83
urlSafeInput(base64, options) == IF options.urlSafe THEN FromUrlAlphabet(base64) ELSE base64
\* decode.ts 97-101: new TextDecoder().decode(bytes of atob's binary string)
decode_atob(binaryString) ==
    IF IsThrow(binaryString) THEN binaryString ELSE Str(TextDecoder_decode(binaryString.v))
\* decode.ts 119-127: result += String.fromCharCode(chr)
decode_fallback(chrs) == Str([k \in 1..Len(chrs) |-> chrs[k] % 65536])
\* decode.ts 89-131: the three paths, on the padded text
decode_paths(base64) ==
    IF Buffer_defined THEN Str(Buffer_toString_utf8(Buffer_from_base64(base64)))
    ELSE IF atob_defined THEN decode_atob(atob(base64))
    ELSE decode_fallback(TableDecode(Sanitize(base64), 0))

decode(value, options) ==
    IF value.t # "string" THEN Throw("InvalidBase64Error")
    ELSE decode_paths(PadEnd(urlSafeInput(value.v, options)))

\* decode.ts 147-149
decodeURL(value) == decode(value, [urlSafe |-> TRUE])

\* decode.ts 165-222
\* decode.ts 177-183: bytes[i] = binaryString.charCodeAt(i)
toUint8Array_atob(binaryString) ==
    IF IsThrow(binaryString) THEN binaryString ELSE U8(binaryString.v)
\* decode.ts 195-221: a Uint8Array of size ((len * 3) / 4) | 0 filled with chrs; a write
\* past its end is dropped and an element stores its value mod 256
toUint8Array_fallback(base64, chrs) ==
    U8([k \in 1..(IF Len(chrs) < (Len(base64) * 3) \div 4 THEN Len(chrs)
                   ELSE (Len(base64) * 3) \div 4) |-> chrs[k] % 256])
\* decode.ts 186-221: the fallback pads the text first
toUint8Array_padded(base64) ==
    toUint8Array_fallback(base64, TableDecode(Sanitize(base64), 0))
\* decode.ts 171-221: the three paths
toUint8Array_paths(base64) ==
    IF Buffer_defined THEN U8(Buffer_from_base64(base64))
    ELSE IF atob_defined THEN toUint8Array_atob(atob(base64))
    ELSE toUint8Array_padded(PadEnd(base64))

toUint8Array(value, options) ==
    IF value.t # "string" THEN Throw("InvalidBase64Error")
    ELSE toUint8Array_paths(urlSafeInput(value.v, options))

\* [\w/\-+.]
IsMimeChar(c) == IsAlnum(c) \/ c \in {UNDERSCORE, SLASH, MINUS, PLUS, 46}
\* what '.' does not match: LF, CR, U+2028, U+2029
IsLineTerminator(c) == c \in {10, 13, 8232, 8233}

\* the number of characters of [\w/\-+.] that s has from index i on: the run ends at
\* the first index that is past the end of s or holds another character
MimeRun(s, i) ==
    (CHOOSE j \in i..(Len(s) + 1) :
        /\ j = Len(s) + 1 \/ ~IsMimeChar(s[j])
        /\ \A k \in i..(j - 1) : IsMimeChar(s[k])) - i

\* the groups of the pattern when the mime part is the n characters after 'data:'.  No
\* character of the mime class is ';', so the mime part can only be that whole run.
DataURLGroups(s, n) ==
    IF /\ slice(s, 0, 5) = DATA_PREFIX
       /\ n >= 1 /\ n <= 100
       /\ slice(s, 5 + n, 13 + n) = BASE64_SEPARATOR
       /\ \A i \in (14 + n)..Len(s) : ~IsLineTerminator(s[i])
    THEN [matched |-> TRUE, mime |-> slice(s, 5, 5 + n), data |-> slice(s, 13 + n, Len(s))]
    ELSE [matched |-> FALSE, mime |-> <<>>, data |-> <<>>]

\* dataURL.match(/^data:(?<mime>[\w/\-+.]{1,100});base64,(?<data>.*)$/)
DataURLMatch(s) ==
    IF Len(s) >= 5 THEN DataURLGroups(s, MimeRun(s, 6)) ELSE DataURLGroups(s, 0)

\* decode.ts 247-249: { data: decoded, mimeType: mime }
fromDataURL_result(mime, decoded) ==
    IF IsThrow(decoded) THEN decoded
    ELSE [t |-> "object", v |-> decoded.v, mimeType |-> mime]

\* decode.ts 242-249
fromDataURL_groups(match) ==
    IF ~match.matched THEN Throw("InvalidDataURLError")
    ELSE fromDataURL_result(match.mime, decode(Str(match.data), [urlSafe |-> FALSE]))

\* decode.ts 239-250; match is no method of a value that is no string
fromDataURL(dataURL) ==
    IF dataURL.t # "string" THEN Throw("TypeError")
    ELSE fromDataURL_groups(DataURLMatch(dataURL.v))

(***************************************************************************)
(* The inputs the model draws from.                                        *)
(***************************************************************************)
Envs == {"node", "browser", "other"}
Revs == {1, 2}
\* bytes whose sextets reach '+' (251) and '/' (255), a zero byte and an ASCII letter
ByteValues == {0, 97, 251, 255}
\* '?' , 'a', U+00E9 (2 UTF-8 bytes), U+20AC (3 bytes), and the surrogate pair of
\* U+1F44B (4 bytes), whose halves alone are lone surrogates
CharValues == {63, 97, 233, 8364, 55357, 56395}
SeqsUpTo(S, n) == UNION {[1..k -> S] : k \in 0..n}

\* a string with no lone surrogate
RECURSIVE WellFormed(_)
WellFormed(s) ==
    IF s = <<>> THEN TRUE
    ELSE IF IsHighSurrogate(s[1])
        THEN Len(s) >= 2 /\ IsLowSurrogate(s[2]) /\ WellFormed(SubSeq(s, 3, Len(s)))
    ELSE ~IsLowSurrogate(s[1]) /\ WellFormed(Tail(s))

InitPlatform == env \in Envs /\ rev \in Revs
NoStream ==
    /\ srev = 1
    /\ source = <<>>
    /\ received = <<>>
    /\ buffer = <<>>
    /\ emitted = <<>>
    /\ state = "none"
streamVars == <<srev, source, received, buffer, emitted, state>>

\* one call of a one-shot function, recorded with what it returned or raised
Call(fn, arg, options, ret) ==
    /\ calls' = Append(calls, [fn |-> fn, arg |-> arg, options |-> options, ret |-> ret])
    /\ UNCHANGED <<env, rev, input>>
    /\ UNCHANGED streamVars

LastRet == calls[Len(calls)].ret

(***************************************************************************)
(* SpecBytes: a byte array is encoded by fromUint8Array and the text is    *)
(* decoded by toUint8Array.                                                *)
(***************************************************************************)
InitBytes ==
    /\ InitPlatform
    /\ input \in {U8(b) : b \in SeqsUpTo(ByteValues, MaxBytes)}
    /\ calls = <<>>
    /\ NoStream

Bytes_fromUint8Array ==
    /\ calls = <<>>
    /\ \E o \in EncodeOptions : Call("fromUint8Array", input, o, fromUint8Array(input, o))

Bytes_toUint8Array ==
    /\ Len(calls) = 1
    /\ \E o \in DecodeOptions : Call("toUint8Array", LastRet, o, toUint8Array(LastRet, o))

NextBytes == Bytes_fromUint8Array \/ Bytes_toUint8Array
SpecBytes == InitBytes /\ [][NextBytes]_vars

\* C1: toUint8Array(fromUint8Array(b, {urlSafe: u, omitPadding: p}), {urlSafe: u}) is b,
\* for every byte array b and all u, p
C1_RoundTripBytes ==
    (/\ Len(calls) = 2
     /\ calls[1].fn = "fromUint8Array"
     /\ calls[2].fn = "toUint8Array"
     /\ calls[2].options.urlSafe = calls[1].options.urlSafe)
        => calls[2].ret = input

\* a round trip through the URL alphabet without padding of bytes that encode to '_'
C1_Witness ==
    /\ Len(calls) = 2
    /\ calls[1].options = [urlSafe |-> TRUE, omitPadding |-> TRUE]
    /\ calls[2].options.urlSafe
    /\ Len(input.v) % 3 = 1
    /\ \E i \in 1..Len(calls[1].ret.v) : calls[1].ret.v[i] = UNDERSCORE
    /\ calls[2].ret = input

RECURSIVE TrailingCount(_, _)
\* the number of characters c that end s
TrailingCount(s, c) ==
    IF s # <<>> /\ s[Len(s)] = c THEN 1 + TrailingCount(SubSeq(s, 1, Len(s) - 1), c) ELSE 0

\* C5: with default options fromUint8Array of n bytes returns 4*ceil(n/3) characters,
\* ending in 0, 2, 1 '=' for n mod 3 = 0, 1, 2, and no '=' anywhere else
C5_PaddingCount ==
    (/\ Len(calls) >= 1
     /\ calls[1].fn = "fromUint8Array"
     /\ calls[1].options = NoOptions)
        => LET n == Len(input.v)
               out == calls[1].ret.v
               pad == CASE n % 3 = 0 -> 0 [] n % 3 = 1 -> 2 [] n % 3 = 2 -> 1
           IN  /\ calls[1].ret.t = "string"
               /\ Len(out) = 4 * ((n + 2) \div 3)
               /\ TrailingCount(out, EQ) = pad
               /\ \A i \in 1..(Len(out) - pad) : out[i] # EQ

\* four bytes encoded with default options: a full group and a group of one byte
C5_Witness ==
    /\ Len(calls) = 1
    /\ calls[1].fn = "fromUint8Array"
    /\ calls[1].options = NoOptions
    /\ Len(input.v) = 4
    /\ Len(calls[1].ret.v) = 8
    /\ TrailingCount(calls[1].ret.v, EQ) = 2

\* the symbol with index i of the alphabet
Symbol(i) == B64_CHAR_SET[i + 1]

RECURSIVE PackedSymbols(_)
\* per group of 3 bytes: the top 6 bits of byte 1; its bottom 2 bits with the top 4 of
\* byte 2; the bottom 4 bits of byte 2 with the top 2 of byte 3; the bottom 6 bits of
\* byte 3; a missing byte counts as zero and a symbol without source byte is '='
PackedSymbols(b) ==
    IF b = <<>> THEN <<>>
    ELSE LET byte1 == b[1]
             byte2 == IF Len(b) >= 2 THEN b[2] ELSE 0
             byte3 == IF Len(b) >= 3 THEN b[3] ELSE 0
         IN  << Symbol(byte1 \div 4),
                Symbol((byte1 % 4) * 16 + (byte2 \div 16)),
                IF Len(b) >= 2 THEN Symbol((byte2 % 16) * 4 + (byte3 \div 64)) ELSE EQ,
                IF Len(b) >= 3 THEN Symbol(byte3 % 64) ELSE EQ >>
                \o PackedSymbols(SubSeq(b, IF Len(b) >= 3 THEN 4 ELSE Len(b) + 1, Len(b)))

\* C18: the table fallback of fromUint8Array emits, per group of 3 bytes, the 4 symbols
\* that the bit packing above names, with '=' where a final group has no source byte
C18_BitPacking ==
    (/\ Len(calls) >= 1
     /\ env = "other"
     /\ calls[1].fn = "fromUint8Array"
     /\ calls[1].options = NoOptions)
        => calls[1].ret = Str(PackedSymbols(input.v))

\* the fallback on [97, 251, 255]: a full group, 'Yfv/'; and on [251, 255]: '+/8='
C18_Witness ==
    /\ Len(calls) = 1
    /\ env = "other"
    /\ calls[1].fn = "fromUint8Array"
    /\ calls[1].options = NoOptions
    /\ input.v = <<251, 255>>
    /\ calls[1].ret.v = <<PLUS, SLASH, 56, EQ>>

(***************************************************************************)
(* SpecText: a string is encoded by encode or encodeURL; the text is then  *)
(* decoded or validated; and the caller decodes it once more with its      *)
(* trailing '=' removed.                                                   *)
(***************************************************************************)
\* 'Hello, world!', the example of the README and of the tests
HelloWorld == <<72, 101, 108, 108, 111, 44, 32, 119, 111, 114, 108, 100, 33>>
\* 'SGVsbG8sIHdvcmxkIQ'
HelloWorldUrl == <<83, 71, 86, 115, 98, 71, 56, 115, 73, 72, 100, 118, 99, 109, 120, 107, 73, 81>>

InitText ==
    /\ InitPlatform
    /\ input \in {Str(x) : x \in SeqsUpTo(CharValues, MaxChars) \cup {HelloWorld}}
    /\ calls = <<>>
    /\ NoStream

Text_encode ==
    /\ calls = <<>>
    /\ \E o \in EncodeOptions : Call("encode", input, o, encode(input, o))

Text_encodeURL ==
    /\ calls = <<>>
    /\ \E o \in EncodeOptions : Call("encodeURL", input, o, encodeURL(input, o))

Text_decode ==
    /\ Len(calls) = 1
    /\ \E o \in DecodeOptions : Call("decode", LastRet, o, decode(LastRet, o))

Text_toUint8Array ==
    /\ Len(calls) = 1
    /\ \E o \in DecodeOptions : Call("toUint8Array", LastRet, o, toUint8Array(LastRet, o))

Text_isValid ==
    /\ Len(calls) = 1
    /\ \E o \in DecodeOptions : Call("isValid", LastRet, o, isValid(LastRet, o))

Text_isValidURL ==
    /\ Len(calls) = 1
    /\ Call("isValidURL", LastRet, [urlSafe |-> TRUE], isValidURL(LastRet))

\* the text of call 1 without its trailing '='
Unpadded == Str(RemoveTrailing(calls[1].ret.v, EQ))

Text_decode_unpadded ==
    /\ Len(calls) = 2
    /\ calls[2].fn = "decode"
    /\ Call("decode", Unpadded, calls[2].options, decode(Unpadded, calls[2].options))

Text_toUint8Array_unpadded ==
    /\ Len(calls) = 2
    /\ calls[2].fn = "toUint8Array"
    /\ Call("toUint8Array", Unpadded, calls[2].options, toUint8Array(Unpadded, calls[2].options))

\* the byte variant on the UTF-8 bytes of the text, with the options encode was given
Text_fromUint8Array ==
    /\ Len(calls) = 1
    /\ calls[1].fn = "encode"
    /\ Call("fromUint8Array", U8(utf8_encode(input.v)), calls[1].options,
            fromUint8Array(U8(utf8_encode(input.v)), calls[1].options))

NextText ==
    \/ Text_encode
    \/ Text_encodeURL
    \/ Text_decode
    \/ Text_toUint8Array
    \/ Text_isValid
    \/ Text_isValidURL
    \/ Text_decode_unpadded
    \/ Text_toUint8Array_unpadded
    \/ Text_fromUint8Array
SpecText == InitText /\ [][NextText]_vars

\* C2: decode(encode(s)) is s for every well-formed string s
C2_RoundTripText ==
    (/\ Len(calls) >= 2
     /\ WellFormed(input.v)
     /\ calls[1].fn = "encode" /\ calls[1].options = NoOptions
     /\ calls[2].fn = "decode" /\ ~calls[2].options.urlSafe)
        => calls[2].ret = input

\* C6: decoding the output of encode with its trailing '=' removed gives what decoding
\* the output itself gives, with decode and with toUint8Array
C6_MissingPadding ==
    (/\ Len(calls) = 3
     /\ calls[1].fn = "encode" /\ ~calls[1].options.omitPadding)
        => calls[3].ret = calls[2].ret

\* an output that ends in '=' decoded by toUint8Array with and without the '='
C6_Witness ==
    /\ Len(calls) = 3
    /\ calls[1].fn = "encode" /\ calls[1].options = NoOptions
    /\ TrailingCount(calls[1].ret.v, EQ) = 2
    /\ calls[3].fn = "toUint8Array"
    /\ calls[3].arg # calls[2].arg
    /\ calls[3].ret.t = "Uint8Array"
    /\ Len(calls[3].ret.v) = 4
    /\ calls[3].ret = calls[2].ret

\* C7: isValid accepts encode(s, {omitPadding: false}), and isValid with urlSafe accepts
\* encode(s, {urlSafe: true, omitPadding: true}), for every string s
C7_ValidatorSoundness ==
    (/\ Len(calls) >= 2
     /\ calls[1].fn = "encode"
     /\ calls[2].fn = "isValid"
     /\ \/ calls[1].options = NoOptions /\ ~calls[2].options.urlSafe
        \/ calls[1].options = [urlSafe |-> TRUE, omitPadding |-> TRUE] /\ calls[2].options.urlSafe)
        => calls[2].ret = Bool(TRUE)

\* C8: encodeURL(value) without options is the URL-safe Base64 of value with no '=':
\* encodeURL('Hello, world!') is 'SGVsbG8sIHdvcmxkIQ'
C8_EncodeUrlOmitsPadding ==
    (/\ Len(calls) >= 1
     /\ calls[1].fn = "encodeURL" /\ calls[1].options = NoOptions)
        => /\ calls[1].ret = Str(Remove(ToUrlAlphabet(NativeBase64(utf8_encode(input.v))), EQ))
           /\ (input.v = HelloWorld => calls[1].ret.v = HelloWorldUrl)

\* C15: encode(s, o) is fromUint8Array(utf8_encode(s), o) for every string s and all
\* options o, on each platform path
C15_TextIsBytesOfUtf8 ==
    (Len(calls) = 2 /\ calls[1].fn = "encode" /\ calls[2].fn = "fromUint8Array")
        => calls[2].ret = calls[1].ret

(***************************************************************************)
(* SpecValid: a candidate value is given to isValid and then to            *)
(* isValidURL.  The validators read no platform global.                    *)
(***************************************************************************)
\* 'A', '+', '/', '-', '_', '=' and a line feed
CandidateChars == {65, PLUS, SLASH, MINUS, UNDERSCORE, EQ, 10}
\* '' , 'A+/9', 'A-_9', 'AA==': what a candidate starts with
CandidatePrefixes == {<<>>, <<65, PLUS, SLASH, 57>>, <<65, MINUS, UNDERSCORE, 57>>, <<65, 65, EQ, EQ>>}
\* values that are no strings
NonStrings ==
    {[t |-> "number", v |-> <<42>>], [t |-> "undefined", v |-> <<>>],
     [t |-> "object", v |-> <<>>], U8(<<65, 65, 65, 65>>)}

Candidates ==
    {Str(pre \o x) : pre \in CandidatePrefixes, x \in SeqsUpTo(CandidateChars, MaxCandidate)}
        \cup NonStrings

InitValid ==
    /\ env = "node" /\ rev = 1
    /\ input \in Candidates
    /\ calls = <<>>
    /\ NoStream

Valid_isValid ==
    /\ calls = <<>>
    /\ \E o \in DecodeOptions : Call("isValid", input, o, isValid(input, o))

Valid_isValidURL ==
    /\ Len(calls) = 1
    /\ Call("isValidURL", input, [urlSafe |-> TRUE], isValidURL(input))

NextValid == Valid_isValid \/ Valid_isValidURL
SpecValid == InitValid /\ [][NextValid]_vars

\* the 64 symbols of the standard alphabet, and of the URL-safe one
Symbols64 == {B64_CHAR_SET[i] : i \in 1..64}
SymbolsUrl64 == (Symbols64 \ {PLUS, SLASH}) \cup {MINUS, UNDERSCORE}

\* groups of 4 symbols, the last one possibly 2 symbols + '==' or 3 symbols + '='
PaddedGrammar(x) ==
    /\ Len(x) % 4 = 0
    /\ \E p \in {0, 1, 2} :
        /\ p <= Len(x)
        /\ \A i \in 1..Len(x) : IF i > Len(x) - p THEN x[i] = EQ ELSE x[i] \in Symbols64

\* C9: isValid(v) with default options is true exactly when v is a string of 4-symbol
\* groups over [A-Za-z0-9+/], the last possibly 2 symbols + '==' or 3 symbols + '=';
\* it is false, and nothing is raised, for every other string and every non-string
C9_StandardGrammar ==
    (/\ Len(calls) >= 1
     /\ calls[1].fn = "isValid" /\ ~calls[1].options.urlSafe)
        => calls[1].ret = Bool(input.t = "string" /\ PaddedGrammar(input.v))

\* a padded second group is accepted
C9_Witness ==
    /\ Len(calls) = 1
    /\ calls[1].fn = "isValid" /\ ~calls[1].options.urlSafe
    /\ Len(input.v) = 8
    /\ input.v[7] # EQ /\ input.v[8] = EQ
    /\ calls[1].ret = Bool(TRUE)

\* C10: isValidURL(v) and isValid(v, {urlSafe: true}) agree, and are true exactly when v
\* is a string over [A-Za-z0-9-_] of length 0, 2 or 3 mod 4
C10_UrlGrammar ==
    LET expected == Bool(/\ input.t = "string"
                         /\ Len(input.v) % 4 \in {0, 2, 3}
                         /\ \A i \in 1..Len(input.v) : input.v[i] \in SymbolsUrl64)
    IN  /\ (Len(calls) >= 1 /\ calls[1].fn = "isValid" /\ calls[1].options.urlSafe)
            => calls[1].ret = expected
        /\ (Len(calls) >= 2 /\ calls[2].fn = "isValidURL")
            => calls[2].ret = expected

\* both entry points accept an unpadded text of 7 symbols
C10_Witness ==
    /\ Len(calls) = 2
    /\ calls[1].fn = "isValid" /\ calls[1].options.urlSafe
    /\ calls[2].fn = "isValidURL"
    /\ Len(input.v) = 7
    /\ calls[1].ret = Bool(TRUE)
    /\ calls[2].ret = Bool(TRUE)

(***************************************************************************)
(* stream.ts and its later revision (unnamed/part_001).  A TransformStream *)
(* calls transform once per chunk, in order, and flush once when the       *)
(* writable side is closed; a callback that raises errors the stream.      *)
(***************************************************************************)
SRevs == {1, 2}

RECURSIVE EncodeSlices(_, _)
\* stream.ts 53-57: while (this.buffer.length >= 3) { slice; result += encode(slice) }
\* gives [buffer, result, threw]
EncodeSlices(buf, result) ==
    IF Len(buf) >= 3
    THEN \* the slice is taken off the buffer before encode can raise
         IF IsThrow(encode(Str(slice(buf, 0, 3)), NoOptions))
         THEN [buffer |-> slice(buf, 3, Len(buf)), result |-> result, threw |-> TRUE]
         ELSE EncodeSlices(slice(buf, 3, Len(buf)),
                           result \o encode(Str(slice(buf, 0, 3)), NoOptions).v)
    ELSE [buffer |-> buf, result |-> result, threw |-> FALSE]

\* a variant of Enqueued that enqueues what was decoded before the error: C26 must tell
\* it from the original
Enqueued_partial(r) ==
    [buffer |-> r.buffer,
     out |-> IF r.result # <<>> THEN <<r.result>> ELSE <<>>,
     threw |-> r.threw]
\* if (result) controller.enqueue(result); a raised error enqueues nothing
Enqueued(r) ==
    [buffer |-> r.buffer,
     out |-> IF ~r.threw /\ r.result # <<>> THEN <<r.result>> ELSE <<>>,
     threw |-> r.threw]
\* if (n > 0) controller.enqueue(r), for the n elements r was computed from
EnqueuedIf(n, rest, r) ==
    [buffer |-> rest,
     out |-> IF n > 0 /\ ~IsThrow(r) THEN <<r.v>> ELSE <<>>,
     threw |-> n > 0 /\ IsThrow(r)]

\* stream.ts 45-61: gives [buffer, out: the chunks enqueued, threw]
EncodeTransform_1(buf, chunk) ==
    Enqueued(EncodeSlices(
        buf \o (IF chunk.t = "string" THEN chunk.v ELSE fromCharCode(chunk.v)), <<>>))

\* unnamed/part_001 45-63
\* unnamed/part_001 53-62: the whole groups of 3 bytes are encoded, the rest is kept
EncodeProcess(toProcess, rest) ==
    EnqueuedIf(Len(toProcess), rest, fromUint8Array(U8(toProcess), NoOptions))
\* a variant of EncodeCombined that keeps the rest of a division by 4: C20 must tell it
\* from the original
EncodeCombined_rest_of_4(combinedBuffer) ==
    EncodeProcess(slice(combinedBuffer, 0, Len(combinedBuffer) - (Len(combinedBuffer) % 4)),
                  slice(combinedBuffer, Len(combinedBuffer) - (Len(combinedBuffer) % 4),
                        Len(combinedBuffer)))
EncodeCombined(combinedBuffer) ==
    EncodeProcess(slice(combinedBuffer, 0, Len(combinedBuffer) - (Len(combinedBuffer) % 3)),
                  slice(combinedBuffer, Len(combinedBuffer) - (Len(combinedBuffer) % 3),
                        Len(combinedBuffer)))
EncodeTransform_2(buf, chunk) ==
    EncodeCombined(buf \o (IF chunk.t = "string" THEN utf8_encode(chunk.v) ELSE chunk.v))

\* stream.ts 62-66
EncodeFlush_1(buf) == EnqueuedIf(Len(buf), buf, encode(Str(buf), NoOptions))

\* unnamed/part_001 64-68
EncodeFlush_2(buf) == EnqueuedIf(Len(buf), buf, fromUint8Array(U8(buf), NoOptions))

RECURSIVE DecodeSlices(_, _)
\* stream.ts 117-121: while (this.buffer.length >= 4) { slice; result += decode(slice) }
DecodeSlices(buf, result) ==
    IF Len(buf) >= 4
    THEN IF IsThrow(decode(Str(slice(buf, 0, 4)), [urlSafe |-> FALSE]))
         THEN [buffer |-> slice(buf, 4, Len(buf)), result |-> result, threw |-> TRUE]
         ELSE DecodeSlices(slice(buf, 4, Len(buf)),
                           result \o decode(Str(slice(buf, 0, 4)), [urlSafe |-> FALSE]).v)
    ELSE [buffer |-> buf, result |-> result, threw |-> FALSE]

\* stream.ts 114-125
DecodeTransform_1(buf, chunk) == Enqueued(DecodeSlices(buf \o chunk.v, <<>>))

\* unnamed/part_001 116-124
\* unnamed/part_001 119-123: the whole groups of 4 characters are decoded, the rest is kept
\* a variant of DecodeProcess that keeps what it decoded in the buffer: C21 must tell it
\* from the original
DecodeProcess_keeps_all(toProcess, rest) ==
    EnqueuedIf(Len(toProcess), toProcess \o rest, decode(Str(toProcess), [urlSafe |-> FALSE]))
DecodeProcess(toProcess, rest) ==
    EnqueuedIf(Len(toProcess), rest, decode(Str(toProcess), [urlSafe |-> FALSE]))
DecodeTransform_2(buf, chunk) ==
    DecodeProcess(slice(buf \o chunk.v, 0, Len(buf \o chunk.v) - (Len(buf \o chunk.v) % 4)),
                  slice(buf \o chunk.v, Len(buf \o chunk.v) - (Len(buf \o chunk.v) % 4),
                        Len(buf \o chunk.v)))

\* stream.ts 126-130, unnamed/part_001 125-129
DecodeFlush(buf) == EnqueuedIf(Len(buf), buf, decode(Str(buf), [urlSafe |-> FALSE]))

\* the next chunk: the first k elements of what is left of the input
Chunk(k) == [t |-> source.t, v |-> SubSeq(source.v, 1, k)]
Deliver(k) ==
    /\ source' = [source EXCEPT !.v = SubSeq(source.v, k + 1, Len(source.v))]
    /\ received' = received \o SubSeq(source.v, 1, k)

\* a variant of Applied in which the stream is errored where it should be closed: C24 must
\* tell it from the original
Applied_close_fails(r, next) ==
    /\ buffer' = r.buffer
    /\ emitted' = emitted \o r.out
    /\ state' = IF r.threw \/ next = "closed" THEN "errored" ELSE next

\* what a callback leaves behind: its buffer, the chunks it enqueued, and the stream
\* errored when it raised
Applied(r, next) ==
    /\ buffer' = r.buffer
    /\ emitted' = emitted \o r.out
    /\ state' = IF r.threw THEN "errored" ELSE next

Base64EncodeStream_transform ==
    /\ state = "open"
    /\ \E k \in 0..Len(source.v) :
        /\ Deliver(k)
        /\ Applied(IF srev = 1 THEN EncodeTransform_1(buffer, Chunk(k))
                   ELSE EncodeTransform_2(buffer, Chunk(k)), "open")
    /\ UNCHANGED <<env, rev, srev, input, calls>>

Base64EncodeStream_flush ==
    /\ state = "open"
    /\ source.v = <<>>
    /\ Applied(IF srev = 1 THEN EncodeFlush_1(buffer) ELSE EncodeFlush_2(buffer), "closed")
    /\ UNCHANGED <<env, rev, srev, input, calls, source, received>>

Base64DecodeStream_transform ==
    /\ state = "open"
    /\ \E k \in 0..Len(source.v) :
        /\ Deliver(k)
        /\ Applied(IF srev = 1 THEN DecodeTransform_1(buffer, Chunk(k))
                   ELSE DecodeTransform_2(buffer, Chunk(k)), "open")
    /\ UNCHANGED <<env, rev, srev, input, calls>>

Base64DecodeStream_flush ==
    /\ state = "open"
    /\ source.v = <<>>
    /\ Applied(DecodeFlush(buffer), "closed")
    /\ UNCHANGED <<env, rev, srev, input, calls, source, received>>

\* 'a' and U+00E9 as text; 97 and 251 as bytes
StreamChars == {97, 233}
StreamBytes == {97, 251}

InitStream ==
    /\ srev \in SRevs
    /\ calls = <<>>
    /\ source = input
    /\ received = <<>>
    /\ buffer = <<>>
    /\ emitted = <<>>
    /\ state = "open"

(***************************************************************************)
(* SpecEncStream: a text or a byte array is delivered to a                 *)
(* Base64EncodeStream in chunks of any sizes, and the stream is closed.    *)
(***************************************************************************)
InitEncStream ==
    /\ InitPlatform
    /\ input \in {Str(x) : x \in SeqsUpTo(StreamChars, MaxStreamLen)}
                    \cup {U8(b) : b \in SeqsUpTo(StreamBytes, MaxStreamLen)}
    /\ InitStream

NextEncStream == Base64EncodeStream_transform \/ Base64EncodeStream_flush
SpecEncStream == InitEncStream /\ [][NextEncStream]_vars

\* the one-shot encoding of the whole input
OneShotEncode ==
    IF input.t = "string" THEN encode(input, NoOptions) ELSE fromUint8Array(input, NoOptions)

\* C3: for every input and every split into chunks, the outputs of Base64EncodeStream,
\* concatenated after flush, are the one-shot encoding of the whole input
C3_EncodeStreamEquivalence ==
    state = "closed" => Str(Concat(emitted)) = OneShotEncode

ReceivedBytes == IF input.t = "string" THEN utf8_encode(received) ELSE received

\* C22: every chunk that Base64EncodeStream emits before flush is not empty, has a length
\* that is a multiple of 4 and holds no '='; nothing is emitted while fewer than 3 bytes
\* have been received
C22_NoPaddingBeforeFlush ==
    state = "open" =>
        /\ \A i \in 1..Len(emitted) :
              /\ Len(emitted[i]) > 0
              /\ Len(emitted[i]) % 4 = 0
              /\ \A k \in 1..Len(emitted[i]) : emitted[i][k] # EQ
        /\ Len(ReceivedBytes) < 3 => emitted = <<>>

\* the bytes that the buffer of an encode stream stands for: the first revision keeps
\* text, the later one bytes
LeftoverBytes ==
    IF srev = 1 /\ input.t = "string" THEN utf8_encode(buffer) ELSE buffer

\* C23: the flush of a Base64EncodeStream emits exactly one chunk, the padded encoding of
\* the leftover bytes, when its buffer is not empty, and nothing when it is empty; a
\* stream that received no input emits nothing at all
C23_FlushEmitsLeftover ==
    [][(state = "open" /\ state' = "closed") =>
          /\ buffer = <<>> => emitted' = emitted
          /\ buffer # <<>> => emitted' = Append(emitted, NativeBase64(LeftoverBytes))
          /\ received = <<>> => emitted' = <<>>]_vars

\* the number of received bytes that make whole groups of 3
WholeGroups == Len(ReceivedBytes) - (Len(ReceivedBytes) % 3)

\* C25: before flush, after any sequence of chunks, what Base64EncodeStream has emitted is
\* the one-shot encoding of the first 3 * floor(n / 3) of the n bytes received, and the
\* buffer holds the other n mod 3 bytes in order
C25_PrefixAndRest ==
    state = "open" =>
        /\ Str(Concat(emitted)) =
              fromUint8Array(U8(SubSeq(ReceivedBytes, 1, WholeGroups)), NoOptions)
        /\ LeftoverBytes = SubSeq(ReceivedBytes, WholeGroups + 1, Len(ReceivedBytes))

(***************************************************************************)
(* SpecEncStreamLive: the TransformStream calls transform for every chunk  *)
(* queued on its writable side and calls flush once that side is closed,   *)
(* so neither callback stays due forever.                                  *)
(***************************************************************************)
\* the steps of transform that take a chunk that is not empty off the source
TransformDue ==
    /\ state = "open"
    /\ \E k \in 1..Len(source.v) :
          source' = [source EXCEPT !.v = SubSeq(source.v, k + 1, Len(source.v))]
\* the steps of flush: the stream is open, no chunk is left, and it is open no more
FlushDue ==
    /\ state = "open"
    /\ source.v = <<>>
    /\ state' \in {"closed", "errored"}

SpecEncStreamLive ==
    /\ SpecEncStream
    /\ WF_source(TransformDue)
    /\ WF_state(FlushDue)

ValidTexts ==
    {NativeBase64(utf8_encode(x)) : x \in SeqsUpTo(StreamChars, MaxDecoded)}
        \cup {Remove(NativeBase64(utf8_encode(x)), EQ) : x \in SeqsUpTo(StreamChars, MaxDecoded)}

InitDecStream ==
    /\ env \in Envs /\ rev = 1
    /\ input \in {Str(x) : x \in ValidTexts}
    /\ InitStream

NextDecStream == Base64DecodeStream_transform \/ Base64DecodeStream_flush
SpecDecStream == InitDecStream /\ [][NextDecStream]_vars

\* C4: for every valid Base64 text and every split into chunks, the outputs of
\* Base64DecodeStream, concatenated after flush, are the one-shot decode of the text
C4_DecodeStreamEquivalence ==
    state = "closed" => Str(Concat(emitted)) = decode(input, [urlSafe |-> FALSE])

\* C21: after every chunk a Base64DecodeStream has processed, for any sequence of chunks
\* of any sizes, its text buffer holds fewer than 4 characters
C21_BufferBelowFour ==
    state # "errored" => Len(buffer) < 4

\* whole groups have been decoded and enqueued and 3 characters are left in the buffer
C21_Witness ==
    /\ state = "open"
    /\ emitted # <<>>
    /\ Len(received) >= 7
    /\ Len(buffer) = 3

(***************************************************************************)
(* SpecDecStreamAny: a text that may hold characters outside the alphabet  *)
(* is delivered to a Base64DecodeStream in chunks of any sizes, and the    *)
(* stream is closed.                                                       *)
(***************************************************************************)
\* 'A', 'Q', a line feed and '*'
AnyChars == {65, 81, 10, 42}
\* texts of up to MaxEncoded characters, alone, after the group 'QUFB' and before 'QQ'
AnyTexts ==
    {prefix \o x \o suffix : prefix \in {<<>>, <<81, 85, 70, 66>>},
                             x \in SeqsUpTo(AnyChars, MaxEncoded),
                             suffix \in {<<>>, <<81, 81>>}}

InitDecStreamAny ==
    /\ env \in Envs /\ rev = 1
    /\ input \in {Str(x) : x \in AnyTexts}
    /\ InitStream

SpecDecStreamAny == InitDecStreamAny /\ [][NextDecStream]_vars

\* the chunk that a step delivers
Delivered == SubSeq(received', Len(received) + 1, Len(received'))

\* a call of decode that transform makes on the text raises: the first revision calls it
\* on every 4 characters, the later one on all whole groups at once
DecodeRaises(text) ==
    IF srev = 1
    THEN \E g \in 0..((Len(text) \div 4) - 1) :
            IsThrow(decode(Str(SubSeq(text, 4 * g + 1, 4 * g + 4)), [urlSafe |-> FALSE]))
    ELSE /\ Len(text) >= 4
         /\ IsThrow(decode(Str(SubSeq(text, 1, Len(text) - (Len(text) % 4))),
                           [urlSafe |-> FALSE]))

\* C26: when a call of decode made for a chunk raises, the stream enqueues nothing for
\* that chunk and is errored, what it emitted before is unchanged, and an errored stream
\* takes no further chunk
C26_ErrorEndsStream ==
    [][/\ (state = "open" /\ DecodeRaises(buffer \o Delivered))
            => (state' = "errored" /\ emitted' = emitted)
       /\ (state = "open" /\ state' = "errored") => emitted' = emitted
       /\ state = "errored" => UNCHANGED <<source, received, buffer, emitted, state>>]_vars

\* the second chunk raised after the first one was decoded and enqueued
C26_Witness ==
    /\ state = "errored"
    /\ emitted = <<<<65, 65, 65>>>>
    /\ Len(received) = 8

\* the text holds a character that decode discards
HasDiscarded(text) == \E k \in 1..Len(text) : ~IsB64Class(text[k]) /\ text[k] # EQ

\* C28: for a text with characters that decode discards and every split into chunks, the
\* outputs of Base64DecodeStream, concatenated after flush, are the one-shot decode of
\* the text
C28_DecodeStreamDiscarded ==
    (state = "closed" /\ HasDiscarded(input.v))
        => Str(Concat(emitted)) = decode(input, [urlSafe |-> FALSE])

(***************************************************************************)
(* SpecTwoStreams: two stream instances, each a Base64EncodeStream or a    *)
(* Base64DecodeStream, are written to and closed in any interleaving.      *)
(* Here source[i] is the class of instance i, received[i] the chunks       *)
(* written to it, and buffer[i], emitted[i], state[i] are its fields, its  *)
(* output and its state.                                                   *)
(***************************************************************************)
Instances == {1, 2}
Classes == {"Base64EncodeStream", "Base64DecodeStream"}
\* 'a', 'QQ', 'QUFBQ' for both classes, and the bytes [251] and [97, 97, 97, 97] for an
\* encode stream
TextChunks == {Str(<<97>>), Str(<<81, 81>>), Str(<<81, 85, 70, 66, 81>>)}
ByteChunks == {U8(<<251>>), U8(<<97, 97, 97, 97>>)}
ChunksOf(class) ==
    IF class = "Base64EncodeStream" THEN TextChunks \cup ByteChunks ELSE TextChunks

\* the transform and the flush callback of a class
TransformOf(class, buf, chunk) ==
    IF class = "Base64EncodeStream"
    THEN IF srev = 1 THEN EncodeTransform_1(buf, chunk) ELSE EncodeTransform_2(buf, chunk)
    ELSE IF srev = 1 THEN DecodeTransform_1(buf, chunk) ELSE DecodeTransform_2(buf, chunk)
FlushOf(class, buf) ==
    IF class = "Base64EncodeStream"
    THEN IF srev = 1 THEN EncodeFlush_1(buf) ELSE EncodeFlush_2(buf)
    ELSE DecodeFlush(buf)

\* a variant of InstanceBuffer in which the instances share the buffer of the first: C29
\* must tell it from the original
InstanceBuffer_shared(i) == buffer[1]
\* private buffer: this.buffer in the callbacks of instance i
InstanceBuffer(i) == buffer[i]

\* what a callback leaves behind in instance i
AppliedTo(i, r, next) ==
    /\ buffer' = [buffer EXCEPT ![i] = r.buffer]
    /\ emitted' = [emitted EXCEPT ![i] = @ \o r.out]
    /\ state' = [state EXCEPT ![i] = IF r.threw THEN "errored" ELSE next]

InitTwoStreams ==
    /\ InitPlatform
    /\ srev \in SRevs
    /\ input = Str(<<>>)
    /\ calls = <<>>
    /\ source \in [Instances -> Classes]
    /\ received = [i \in Instances |-> <<>>]
    /\ buffer = [i \in Instances |-> <<>>]
    /\ emitted = [i \in Instances |-> <<>>]
    /\ state = [i \in Instances |-> "open"]

Instance_transform ==
    /\ Len(received[1]) + Len(received[2]) < MaxInterleaved
    /\ \E i \in Instances :
        /\ state[i] = "open"
        /\ \E chunk \in ChunksOf(source[i]) :
            /\ received' = [received EXCEPT ![i] = Append(@, chunk)]
            /\ AppliedTo(i, TransformOf(source[i], InstanceBuffer(i), chunk), "open")
    /\ UNCHANGED <<env, rev, srev, input, calls, source>>

Instance_flush ==
    /\ \E i \in Instances :
        /\ state[i] = "open"
        /\ AppliedTo(i, FlushOf(source[i], InstanceBuffer(i)), "closed")
    /\ UNCHANGED <<env, rev, srev, input, calls, source, received>>

NextTwoStreams == Instance_transform \/ Instance_flush
SpecTwoStreams == InitTwoStreams /\ [][NextTwoStreams]_vars

\* the output so far followed by what one more callback enqueued
AloneJoin(before, r) ==
    [buffer |-> r.buffer, out |-> before.out \o r.out, threw |-> r.threw]
\* one more chunk for an instance driven alone
AloneNext(before, class, chunk) ==
    AloneJoin(before, TransformOf(class, before.buffer, chunk))

RECURSIVE Alone(_, _)
\* an instance of the class driven alone with the chunks: its buffer, its output, and
\* whether a callback raised
Alone(class, chunks) ==
    IF chunks = <<>> THEN [buffer |-> <<>>, out |-> <<>>, threw |-> FALSE]
    ELSE AloneNext(Alone(class, SubSeq(chunks, 1, Len(chunks) - 1)), class, chunks[Len(chunks)])

\* C29: with two instances driven in any interleaving, the buffer and the output of each
\* are what they are when the instance is driven alone with its own chunks
C29_InstancesIndependent ==
    \A i \in Instances :
        /\ state[i] = "open" =>
              /\ buffer[i] = Alone(source[i], received[i]).buffer
              /\ emitted[i] = Alone(source[i], received[i]).out
        /\ state[i] = "closed" =>
              /\ emitted[i] =
                    AloneJoin(Alone(source[i], received[i]),
                              FlushOf(source[i], Alone(source[i], received[i]).buffer)).out

\* both instances have taken chunks, hold different leftovers, and one has emitted
C29_Witness ==
    /\ \A i \in Instances : state[i] = "open" /\ received[i] # <<>>
    /\ buffer[1] # <<>> /\ buffer[2] # <<>> /\ buffer[1] # buffer[2]
    /\ emitted[1] # <<>>

(***************************************************************************)
(* SpecDecode: a string, well formed or not, is given to decode and then   *)
(* to toUint8Array with the same options.                                  *)
(***************************************************************************)
\* 'A', 'w', '6', 'k' ('w6k=' is the Base64 of U+00E9), '=', '*' and '-'
EncodedChars == {65, 119, 54, 107, EQ, 42, MINUS}

InitDecode ==
    /\ env \in Envs /\ rev = 1
    /\ input \in {Str(x) : x \in SeqsUpTo(EncodedChars, MaxEncoded)}
    /\ calls = <<>>
    /\ NoStream

Decode_decode ==
    /\ calls = <<>>
    /\ \E o \in DecodeOptions : Call("decode", input, o, decode(input, o))

Decode_toUint8Array ==
    /\ Len(calls) = 1
    /\ Call("toUint8Array", input, calls[1].options, toUint8Array(input, calls[1].options))

NextDecode == Decode_decode \/ Decode_toUint8Array
SpecDecode == InitDecode /\ [][NextDecode]_vars

\* C11: decode and toUint8Array return a value and never raise for any string input,
\* however malformed, on each platform path
C11_NeverRaises ==
    \A i \in 1..Len(calls) : ~IsThrow(calls[i].ret)

\* C16: decode(x, o) is the UTF-8 decoding of toUint8Array(x, o) for every string x and
\* all options o, on each platform path; where one raises, so does the other
C16_TextIsUtf8OfBytes ==
    Len(calls) = 2 =>
        IF IsThrow(calls[2].ret) THEN calls[1].ret = calls[2].ret
        ELSE calls[1].ret = Str(utf8_decode(calls[2].ret.v))

\* the index of a symbol of the alphabet, 64 for '='
SymbolIndex(c) == B64_LOOKUP[c]

RECURSIVE GroupBytes(_)
\* per group of 4 symbols: byte1 = (sym1<<2)|(sym2>>4) always, byte2 =
\* ((sym2&15)<<4)|(sym3>>2) when sym3 is not '=', byte3 = ((sym3&3)<<6)|sym4 when sym4
\* is not '='
GroupBytes(symbols) ==
    IF Len(symbols) < 4 THEN <<>>
    ELSE <<Or(Shl(SymbolIndex(symbols[1]), 2), Shr(SymbolIndex(symbols[2]), 4))>>
            \o (IF symbols[3] # EQ
                THEN <<Or(Shl(And(SymbolIndex(symbols[2]), 15), 4),
                          Shr(SymbolIndex(symbols[3]), 2))>>
                ELSE <<>>)
            \o (IF symbols[4] # EQ
                THEN <<Or(Shl(And(SymbolIndex(symbols[3]), 3), 6), SymbolIndex(symbols[4]))>>
                ELSE <<>>)
            \o GroupBytes(SubSeq(symbols, 5, Len(symbols)))

\* the symbols that the fallback reads from the input of call i: the text after the
\* conversion of the URL-safe alphabet, the padding and the removal of other characters
SymbolsRead(i) == Sanitize(PadEnd(urlSafeInput(calls[i].arg.v, calls[i].options)))

\* C19: on the table fallback decode and toUint8Array emit, for every group of 4 symbols,
\* the values that GroupBytes names, and every emitted value lies in 0..255
C19_GroupBytesInRange ==
    \A i \in 1..Len(calls) :
        (env = "other" /\ Len(SymbolsRead(i)) % 4 = 0)
            => /\ calls[i].ret.v = GroupBytes(SymbolsRead(i))
               /\ \A k \in 1..Len(calls[i].ret.v) : calls[i].ret.v[k] \in 0..255

\* call i made on the input without the characters outside the alphabet and '='
OnSanitized(i) ==
    IF calls[i].fn = "decode" THEN decode(Str(Sanitize(calls[i].arg.v)), calls[i].options)
    ELSE toUint8Array(Str(Sanitize(calls[i].arg.v)), calls[i].options)

\* C27: for every string x, decode(x) and toUint8Array(x) return what they return for x
\* without its characters outside the 64 symbols and '=', on each platform path
C27_DiscardedCharsIgnored ==
    \A i \in 1..Len(calls) :
        ~calls[i].options.urlSafe => calls[i].ret = OnSanitized(i)

(***************************************************************************)
(* SpecIndex: index.ts.  A value of any type is given to an exported       *)
(* function, and then to the static member of the Base64 class that has    *)
(* the same name.                                                          *)
(***************************************************************************)
\* index.ts 1-28: the exported names, btoa and atob being import aliases
ExportedNames ==
    {"encode", "decode", "encodeURL", "decodeURL", "isValid", "isValidURL",
     "fromUint8Array", "toUint8Array", "toDataURL", "fromDataURL", "btoa", "atob"}

\* the call name(value, options) of an exported function; toDataURL takes its MIME
\* type from the options record of the call
Invoke(name, value, options) ==
    CASE name = "encode" -> encode(value, options)
      [] name = "btoa" -> encode(value, options)
      [] name = "decode" -> decode(value, options)
      [] name = "atob" -> decode(value, options)
      [] name = "encodeURL" -> encodeURL(value, options)
      [] name = "decodeURL" -> decodeURL(value)
      [] name = "isValid" -> isValid(value, options)
      [] name = "isValidURL" -> isValidURL(value)
      [] name = "fromUint8Array" -> fromUint8Array(value, options)
      [] name = "toUint8Array" -> toUint8Array(value, options)
      [] name = "toDataURL" -> toDataURL(value, options.mimeType, options)
      [] name = "fromDataURL" -> fromDataURL(value)

\* a variant of Base64_static that binds the two polyfill names the other way round:
\* C17 must tell it from the original
Base64_static_swapped(name) ==
    CASE name = "btoa" -> "atob" [] name = "atob" -> "btoa" [] OTHER -> name
\* index.ts 33-46: the function each static member of Base64 is initialised with
Base64_static(name) ==
    CASE name = "encode" -> "encode"
      [] name = "decode" -> "decode"
      [] name = "encodeURL" -> "encodeURL"
      [] name = "decodeURL" -> "decodeURL"
      [] name = "isValid" -> "isValid"
      [] name = "isValidURL" -> "isValidURL"
      [] name = "fromUint8Array" -> "fromUint8Array"
      [] name = "toUint8Array" -> "toUint8Array"
      [] name = "fromDataURL" -> "fromDataURL"
      [] name = "toDataURL" -> "toDataURL"
      [] name = "btoa" -> "btoa"
      [] name = "atob" -> "atob"

\* 'text/plain'
TextPlain == <<116, 101, 120, 116, 47, 112, 108, 97, 105, 110>>
IndexOptions == [urlSafe : BOOLEAN, omitPadding : BOOLEAN, mimeType : {TextPlain}]

\* strings, byte arrays, Node Buffers, and values that are neither
TypedValues ==
    {Str(<<>>), Str(<<97>>), Str(<<233, 63, 63>>), Str(<<89, 81, 61, 61>>), Str(<<119, 54, 107>>),
     U8(<<>>), U8(<<97>>), U8(<<251, 255>>),
     [t |-> "Buffer", v |-> <<>>], [t |-> "Buffer", v |-> <<97, 255>>],
     [t |-> "number", v |-> <<42>>], [t |-> "undefined", v |-> <<>>],
     [t |-> "null", v |-> <<>>], [t |-> "object", v |-> <<>>]}

\* a Buffer exists only where the Buffer global does
InitIndex ==
    /\ InitPlatform
    /\ input \in TypedValues
    /\ input.t = "Buffer" => Buffer_defined
    /\ calls = <<>>
    /\ NoStream

Index_function ==
    /\ calls = <<>>
    /\ \E name \in ExportedNames, o \in IndexOptions :
        Call(name, input, o, Invoke(name, input, o))

Index_static ==
    /\ Len(calls) = 1
    /\ Call(calls[1].fn, input, calls[1].options,
            Invoke(Base64_static(calls[1].fn), input, calls[1].options))

NextIndex == Index_function \/ Index_static
SpecIndex == InitIndex /\ [][NextIndex]_vars

\* a value the byte variant is documented to take: a Uint8Array, which a Buffer is
IsByteSequence(value) == value.t \in {"Uint8Array", "Buffer"}

\* C12: encode raises TypeError for every non-string; fromUint8Array raises TypeError
\* for every value that is no byte sequence and accepts every byte sequence; decode
\* and toUint8Array raise InvalidBase64Error for every non-string
C12_WrongTypeErrors ==
    Len(calls) >= 1 =>
        /\ (calls[1].fn = "encode" /\ input.t # "string")
                => calls[1].ret = Throw("TypeError")
        /\ (calls[1].fn = "fromUint8Array" /\ ~IsByteSequence(input))
                => calls[1].ret = Throw("TypeError")
        /\ (calls[1].fn = "fromUint8Array" /\ IsByteSequence(input))
                => ~IsThrow(calls[1].ret)
        /\ (calls[1].fn \in {"decode", "toUint8Array"} /\ input.t # "string")
                => calls[1].ret = Throw("InvalidBase64Error")

\* C17: each static member of Base64 returns what the exported function of the same
\* name returns, btoa(x) is encode(x) and atob(x) is decode(x), for every input and options
C17_StaticsAreFunctions ==
    /\ Len(calls) = 2 => calls[2].ret = calls[1].ret
    /\ (Len(calls) >= 1 /\ calls[1].fn = "btoa")
            => calls[1].ret = encode(input, calls[1].options)
    /\ (Len(calls) >= 1 /\ calls[1].fn = "atob")
            => calls[1].ret = decode(input, calls[1].options)

\* Base64.btoa('a') after btoa('a'): both 'YQ=='
C17_Witness ==
    /\ Len(calls) = 2
    /\ calls[1].fn = "btoa" /\ calls[2].fn = "btoa"
    /\ input = Str(<<97>>)
    /\ ~calls[1].options.omitPadding
    /\ calls[2].ret = Str(<<89, 81, 61, 61>>)

\* the alphabet holds 64 distinct symbols and then '=' at index 64, and the lookup table
\* maps each of these 65 symbols, and nothing else, to its index
AlphabetAndTable ==
    /\ Len(B64_CHAR_SET) = 65
    /\ Cardinality({B64_CHAR_SET[i] : i \in 1..64}) = 64
    /\ B64_CHAR_SET[65] = EQ
    /\ \A i \in 1..64 : B64_CHAR_SET[i] # EQ
    /\ DOMAIN B64_LOOKUP = {B64_CHAR_SET[i] : i \in 1..65}
    /\ \A i \in 1..65 : B64_LOOKUP[B64_CHAR_SET[i]] = i - 1
    /\ \A k \in 0..63 : B64_LOOKUP[Symbol(k)] = k

Mime100 == [i \in 1..100 |-> 97]
Mime101 == [i \in 1..101 |-> 97]
\* 'a', 'text/plain', 'a+b.c-d_e/9' and the longest one
MimeTypes == {<<97>>, TextPlain, <<97, 43, 98, 46, 99, 45, 100, 95, 101, 47, 57>>, Mime100}

\* '', 'a', U+00E9, 'aa>' (Base64 'YWE+'), 'aa?' (Base64 'YWE/')
DataTexts == {<<>>, <<97>>, <<233>>, <<97, 97, 62>>, <<97, 97, 63>>}

\* strings given to fromDataURL: without 'data:', without ';base64,', with an empty or
\* too long MIME type, with parameters after the MIME type; and with the whole
\* structure and a payload that is well formed, empty, malformed, or ends in a line feed
DataURLCandidates ==
    {<<110, 111, 116, 32, 97, 32, 100, 97, 116, 97, 32, 117, 114, 108>>,
     <<116, 101, 120, 116, 47, 112, 108, 97, 105, 110, 59, 98, 97, 115, 101, 54, 52, 44, 89, 81, 61, 61>>,
     <<100, 97, 116, 97, 58, 116, 101, 120, 116, 47, 112, 108, 97, 105, 110, 44, 89, 81, 61, 61>>,
     <<100, 97, 116, 97, 58, 59, 98, 97, 115, 101, 54, 52, 44, 89, 81, 61, 61>>,
     DATA_PREFIX \o Mime101 \o BASE64_SEPARATOR \o <<89, 81, 61, 61>>,
     <<100, 97, 116, 97, 58, 116, 101, 120, 116, 47, 112, 108, 97, 105, 110, 59, 99, 104, 97, 114, 115, 101, 116, 61, 117, 116, 102, 45, 56, 59, 98, 97, 115, 101, 54, 52, 44, 89, 81, 61, 61>>,
     <<100, 97, 116, 97, 58, 116, 101, 120, 116, 47, 112, 108, 97, 105, 110, 59, 98, 97, 115, 101, 54, 52, 44, 89, 81, 61, 61>>,
     DATA_PREFIX \o Mime100 \o BASE64_SEPARATOR,
     <<100, 97, 116, 97, 58, 116, 101, 120, 116, 47, 112, 108, 97, 105, 110, 59, 98, 97, 115, 101, 54, 52, 44, 42>>,
     <<100, 97, 116, 97, 58, 116, 101, 120, 116, 47, 112, 108, 97, 105, 110, 59, 98, 97, 115, 101, 54, 52, 44, 89, 81, 61, 61>> \o <<10>>}

InitDataURL ==
    /\ InitPlatform
    /\ input \in {Str(x) : x \in DataTexts \cup DataURLCandidates}
    /\ calls = <<>>
    /\ NoStream

DataURL_toDataURL ==
    /\ calls = <<>>
    /\ input.v \in DataTexts
    /\ \E m \in MimeTypes, o \in EncodeOptions :
        Call("toDataURL", input,
             [urlSafe |-> o.urlSafe, omitPadding |-> o.omitPadding, mimeType |-> m],
             toDataURL(input, m, o))

DataURL_fromDataURL ==
    /\ Len(calls) = 1
    /\ calls[1].fn = "toDataURL"
    /\ Call("fromDataURL", LastRet, NoOptions, fromDataURL(LastRet))

DataURL_fromDataURL_input ==
    /\ calls = <<>>
    /\ Call("fromDataURL", input, NoOptions, fromDataURL(input))

NextDataURL == DataURL_toDataURL \/ DataURL_fromDataURL \/ DataURL_fromDataURL_input
SpecDataURL == InitDataURL /\ [][NextDataURL]_vars

\* C13: fromDataURL(toDataURL(value, m, o)) is {data: value, mimeType: m} for every
\* string value, every MIME type m of 1 to 100 characters and all options o
C13_DataURLRoundTrip ==
    (Len(calls) = 2 /\ calls[1].fn = "toDataURL")
        => calls[2].ret = [t |-> "object", v |-> input.v, mimeType |-> calls[1].options.mimeType]

\* 'data:', a MIME type of 1 to 100 characters of [\w/\-+.], ';base64,', any payload
HasDataURLStructure(x) ==
    \E n \in 1..100 :
        /\ Len(x) >= 13 + n
        /\ SubSeq(x, 1, 5) = DATA_PREFIX
        /\ \A i \in 6..(5 + n) : IsMimeChar(x[i])
        /\ SubSeq(x, 6 + n, 13 + n) = BASE64_SEPARATOR

\* C14: fromDataURL raises InvalidDataURLError for every string without the 'data:'
\* prefix, without the ';base64,' separator, or with an empty or too long MIME type,
\* and raises nothing for a string that has the structure
C14_DataURLErrors ==
    (Len(calls) >= 1 /\ calls[1].fn = "fromDataURL")
        => IF HasDataURLStructure(input.v) THEN ~IsThrow(calls[1].ret)
           ELSE calls[1].ret = Throw("InvalidDataURLError")

====
